---- MODULE Spec2Model ----
(***************************************************************************)
(* A model of the skew heap of src/src/lib.rs.  Boxed nodes live in an     *)
(* arena indexed by node identity; an Option<Box<Node<T>>> is a node       *)
(* identity or Nil.  Every public method is one action.                    *)
(***************************************************************************)
EXTENDS Integers, Sequences, FiniteSets, Bags, TLC

\* Bounds of the exploration.
MaxNodes == 3          \* boxes that can be allocated at the same time
MaxVal == 2            \* items are 1..MaxVal
MaxExt == 2            \* longest vector handed to extend
MaxMerge == 4          \* boxes allocated at the same time when merge is stepped
MaxWalk == 4           \* boxes allocated at the same time when the walker is stepped

Arena ==
  CHOOSE n \in {MaxNodes, MaxMerge, MaxWalk} :
    \A m \in {MaxNodes, MaxMerge, MaxWalk} : n >= m
NodeIds == 1..Arena
Vals == 1..MaxVal
Nil == 0               \* Option::None of an Option<Box<Node<T>>>
NoItem == 0            \* the item field of a box that is not allocated
None == << >>          \* Option::None of an Option<T>
Some(x) == << x >>

\* The two SkewHeap values of the program, the one IntoIter, and the
\* temporary that clone_from and clone build or dismantle.
Heaps == {"h1", "h2"}
Holders == Heaps \cup {"it", "tmp"}

VARIABLES
  l,          \* Node::l of every box
  r,          \* Node::r of every box
  item,       \* Node::item of every box
  live,       \* the allocated boxes
  node,       \* Nodes::node of every holder
  len,        \* SkewHeap::len / IntoIter::len of every holder
  fault,      \* a debug_assert! of push_node has failed
  moved,      \* heaps that were moved out of by into_iter
  into,       \* TRUE while the IntoIter exists
  iter,       \* the borrowing Iter, if any
  last,       \* the operation that ran last, its arguments and its result
  bin,        \* the reference BinaryHeap of the tests, as a bag
  binret,     \* the reference's result of the last operation
  mg          \* the call of merge under way, when merge is stepped

vars == << l, r, item, live, node, len, fault, moved, into, iter, last, bin,
           binret, mg >>
memvars == << l, r, item, live, node, len, fault >>

\* The memory as one value, for the operators that compute an operation.
Mem == [l |-> l, r |-> r, item |-> item, live |-> live, node |-> node,
        len |-> len, fault |-> fault]

MemP == [l |-> l', r |-> r', item |-> item', live |-> live', node |-> node',
         len |-> len', fault |-> fault']

Store(M) ==
  /\ l' = M.l
  /\ r' = M.r
  /\ item' = M.item
  /\ live' = M.live
  /\ node' = M.node
  /\ len' = M.len
  /\ fault' = M.fault

EmptyMem ==
  [l |-> [n \in NodeIds |-> Nil], r |-> [n \in NodeIds |-> Nil],
   item |-> [n \in NodeIds |-> NoItem], live |-> {},
   node |-> [h \in Holders |-> Nil], len |-> [h \in Holders |-> 0],
   fault |-> FALSE]

\* A place holding an Option<Box<Node<T>>>: the node field of a holder or the
\* l field of a box.
RootSlot(h) == << "node", h >>
LeftSlot(n) == << "l", n >>
Get(M, a) == IF a[1] = "node" THEN M.node[a[2]] ELSE M.l[a[2]]
Put(M, a, v) ==
  IF a[1] = "node" THEN [M EXCEPT !.node[a[2]] = v] ELSE [M EXCEPT !.l[a[2]] = v]

\* Box::new(Node { l: None, r: None, item: item })
FreeIds(M) == NodeIds \ M.live
NewId(M) == CHOOSE n \in FreeIds(M) : \A m \in FreeIds(M) : n <= m
NewNode(M, x) ==
  [M EXCEPT !.live = @ \cup {NewId(M)}, !.item[NewId(M)] = x,
            !.l[NewId(M)] = Nil, !.r[NewId(M)] = Nil]

\* mergeIter that exchanges the two boxes on equal items too.
mergeIter_tieswap(M, a, b) ==
  LET an == Get(M, a)
      sw == M.item[an] <= M.item[b]
      w == IF sw THEN b ELSE an
      bn == IF sw THEN an ELSE b
      M1 == Put(M, a, w)
  IN [M |-> [M1 EXCEPT !.l[w] = bn, !.r[w] = M1.l[w]],
      a |-> LeftSlot(w),
      b |-> M1.r[w]]

\* mergeIter without the exchange of a.l and a.r: the old left child is
\* carried forward and the right child stays where it is.
mergeIter_noskew(M, a, b) ==
  LET an == Get(M, a)
      sw == M.item[an] < M.item[b]
      w == IF sw THEN b ELSE an
      bn == IF sw THEN an ELSE b
      M1 == Put(M, a, w)
  IN [M |-> [M1 EXCEPT !.l[w] = bn],
      a |-> LeftSlot(w),
      b |-> M1.l[w]]

\* mergeIter that overwrites a.l with bn and forgets what a.l held.
mergeIter_forget(M, a, b) ==
  LET an == Get(M, a)
      sw == M.item[an] < M.item[b]
      w == IF sw THEN b ELSE an
      bn == IF sw THEN an ELSE b
      M1 == Put(M, a, w)
  IN [M |-> [M1 EXCEPT !.l[w] = bn, !.r[w] = M1.l[w]],
      a |-> LeftSlot(w),
      b |-> Nil]

\* mergeIter without the comparison: the two boxes are never exchanged.
mergeIter_noswap(M, a, b) ==
  LET w == Get(M, a)
  IN [M |-> [M EXCEPT !.l[w] = b, !.r[w] = M.l[w]],
      a |-> LeftSlot(w),
      b |-> M.r[w]]

\* One iteration of the loop of merge with both sides present.
mergeIter(M, a, b) ==
  LET an == Get(M, a)
      sw == M.item[an] < M.item[b]
      w == IF sw THEN b ELSE an
      bn == IF sw THEN an ELSE b
      M1 == Put(M, a, w)
  IN [M |-> [M1 EXCEPT !.l[w] = bn, !.r[w] = M1.l[w]],
      a |-> LeftSlot(w),
      b |-> M1.r[w]]

\* merge that returns without storing b when the slot is empty.
RECURSIVE merge_dropb(_, _, _)
merge_dropb(M, a, b) ==
  IF Get(M, a) = Nil \/ b = Nil THEN M
  ELSE LET S == mergeIter(M, a, b) IN merge_dropb(S.M, S.a, S.b)

RECURSIVE merge(_, _, _)
merge(M, a, b) ==
  IF Get(M, a) = Nil THEN Put(M, a, b)
  ELSE IF b = Nil THEN M
  ELSE LET S == mergeIter(M, a, b) IN merge(S.M, S.a, S.b)

push_node(M, h, n) ==
  LET M1 == [M EXCEPT !.fault = @ \/ M.l[n] # Nil \/ M.r[n] # Nil,
                      !.len[h] = @ + 1]
  IN merge(M1, RootSlot(h), n)

\* pop_node without the decrement of len.
pop_node_nodec(M, h) ==
  LET n == M.node[h] IN
  IF n = Nil THEN [M |-> M, n |-> Nil]
  ELSE LET M1 == [M EXCEPT !.node[h] = M.l[n], !.l[n] = Nil, !.r[n] = Nil]
       IN [M |-> merge(M1, RootSlot(h), M.r[n]), n |-> n]

\* pop_node that leaves the right child in the box it returns.
pop_node_nomerge(M, h) ==
  LET n == M.node[h] IN
  IF n = Nil THEN [M |-> M, n |-> Nil]
  ELSE [M |-> [M EXCEPT !.len[h] = @ - 1, !.node[h] = M.l[n], !.l[n] = Nil],
        n |-> n]

\* pop_node that decrements len before looking at the root.
pop_node_decfirst(M, h) ==
  LET n == M.node[h] IN
  IF n = Nil THEN [M |-> [M EXCEPT !.len[h] = @ - 1], n |-> Nil]
  ELSE LET M1 == [M EXCEPT !.len[h] = @ - 1, !.node[h] = M.l[n],
                           !.l[n] = Nil, !.r[n] = Nil]
       IN [M |-> merge(M1, RootSlot(h), M.r[n]), n |-> n]

pop_node(M, h) ==
  LET n == M.node[h] IN
  IF n = Nil THEN [M |-> M, n |-> Nil]
  ELSE LET M1 == [M EXCEPT !.len[h] = @ - 1, !.node[h] = M.l[n],
                           !.l[n] = Nil, !.r[n] = Nil]
       IN [M |-> merge(M1, RootSlot(h), M.r[n]), n |-> n]

\* Dropping a Box<Node<T>>: the compiler-generated drop frees the children
\* held in l and r, then the box.
RECURSIVE dropBox(_, _)
dropBox(M, n) ==
  IF n = Nil THEN M
  ELSE LET M1 == dropBox(dropBox(M, M.l[n]), M.r[n])
       IN [M1 EXCEPT !.live = @ \ {n}, !.l[n] = Nil, !.r[n] = Nil,
                     !.item[n] = NoItem]

\* The loop of Nodes::next whose rotation does not move l.r into node.l.
RECURSIVE nextLoop_lose(_, _, _)
nextLoop_lose(M, h, n) ==
  IF M.l[n] = Nil
  THEN [M |-> [M EXCEPT !.node[h] = M.r[n], !.r[n] = Nil], n |-> n]
  ELSE LET lc == M.l[n]
       IN nextLoop_lose([M EXCEPT !.l[n] = Nil, !.r[lc] = n], h, lc)

\* The loop of Nodes::next, with `node` the box in hand.
RECURSIVE nextLoop(_, _, _)
nextLoop(M, h, n) ==
  IF M.l[n] = Nil
  THEN [M |-> [M EXCEPT !.node[h] = M.r[n], !.r[n] = Nil], n |-> n]
  ELSE LET lc == M.l[n]
       IN nextLoop([M EXCEPT !.l[n] = M.r[lc], !.r[lc] = n], h, lc)

Nodes_next(M, h) ==
  IF M.node[h] = Nil THEN [M |-> M, n |-> Nil]
  ELSE nextLoop([M EXCEPT !.node[h] = Nil], h, M.node[h])

\* Drop for Nodes: for _ in self {}
RECURSIVE Nodes_drop(_, _)
Nodes_drop(M, h) ==
  LET S == Nodes_next(M, h)
  IN IF S.n = Nil THEN S.M ELSE Nodes_drop(dropBox(S.M, S.n), h)

\* SkewHeap::iter and Iter::next; an Iter is its stack of node references
\* and its len.  Iter::next returns the node whose item it yields, or Nil.
NoIter == [nodes |-> << >>, len |-> 0]
SkewHeap_iter(M, h) ==
  [nodes |-> IF M.node[h] = Nil THEN << >> ELSE << M.node[h] >>,
   len |-> M.len[h]]

\* Iter::next that does not push the right child.
Iter_next_noright(M, it) ==
  IF it.nodes = << >> THEN [it |-> it, n |-> Nil]
  ELSE LET n == it.nodes[Len(it.nodes)]
           s0 == SubSeq(it.nodes, 1, Len(it.nodes) - 1)
           s1 == IF M.l[n] # Nil THEN Append(s0, M.l[n]) ELSE s0
       IN [it |-> [nodes |-> s1, len |-> it.len - 1], n |-> n]

Iter_next(M, it) ==
  IF it.nodes = << >> THEN [it |-> it, n |-> Nil]
  ELSE LET n == it.nodes[Len(it.nodes)]
           s0 == SubSeq(it.nodes, 1, Len(it.nodes) - 1)
           s1 == IF M.l[n] # Nil THEN Append(s0, M.l[n]) ELSE s0
           s2 == IF M.r[n] # Nil THEN Append(s1, M.r[n]) ELSE s1
       IN [it |-> [nodes |-> s2, len |-> it.len - 1], n |-> n]

\* The public methods.  Each yields the memory after the call and, where the
\* method returns something, its result.
is_empty(M, h) == M.node[h] = Nil
peek(M, h) == IF M.node[h] = Nil THEN None ELSE Some(M.item[M.node[h]])

push(M, h, x) == push_node(NewNode(M, x), h, NewId(M))

\* append that merges the trees without adding the len of the other heap.
append_nolen(M, h, o) ==
  LET M1 == [M EXCEPT !.len[o] = 0, !.node[o] = Nil]
  IN merge(M1, RootSlot(h), M.node[o])

\* append that merges the root of the other heap without taking it.
append_keeproot(M, h, o) ==
  LET M1 == [M EXCEPT !.len[h] = @ + M.len[o], !.len[o] = 0]
  IN merge(M1, RootSlot(h), M.node[o])

\* append that leaves the len of the other heap as it was.
append_keeplen(M, h, o) ==
  LET M1 == [M EXCEPT !.len[h] = @ + M.len[o], !.node[o] = Nil]
  IN merge(M1, RootSlot(h), M.node[o])

append(M, h, o) ==
  LET M1 == [M EXCEPT !.len[h] = @ + M.len[o], !.len[o] = 0, !.node[o] = Nil]
  IN merge(M1, RootSlot(h), M.node[o])

clear(M, h) ==
  LET M1 == Nodes_drop(M, h)
  IN [M1 EXCEPT !.node[h] = Nil, !.len[h] = 0]

pop(M, h) ==
  LET S == pop_node(M, h)
  IN IF S.n = Nil THEN [M |-> S.M, ret |-> None]
     ELSE [M |-> dropBox(S.M, S.n), ret |-> Some(S.M.item[S.n])]

\* push_pop without the comparison with the root.
push_pop_nocheck(M, h, x) ==
  LET S == pop_node(M, h)
  IN IF S.n = Nil THEN [M |-> S.M, ret |-> x]
     ELSE [M |-> push_node([S.M EXCEPT !.item[S.n] = x], h, S.n),
           ret |-> S.M.item[S.n]]

push_pop(M, h, x) ==
  IF M.node[h] # Nil /\ x >= M.item[M.node[h]] THEN [M |-> M, ret |-> x]
  ELSE LET S == pop_node(M, h)
       IN IF S.n = Nil THEN [M |-> S.M, ret |-> x]
          ELSE [M |-> push_node([S.M EXCEPT !.item[S.n] = x], h, S.n),
                ret |-> S.M.item[S.n]]

\* replace that, like push_pop, hands back an item that is not smaller than
\* the root and leaves the heap alone.
replace_skip(M, h, x) ==
  IF M.node[h] # Nil /\ x >= M.item[M.node[h]] THEN [M |-> M, ret |-> Some(x)]
  ELSE LET S == pop_node(M, h)
       IN IF S.n = Nil THEN [M |-> push(S.M, h, x), ret |-> None]
          ELSE [M |-> push_node([S.M EXCEPT !.item[S.n] = x], h, S.n),
                ret |-> Some(S.M.item[S.n])]

\* replace that overwrites the root's item whatever the item is.
replace_inplace(M, h, x) ==
  IF M.node[h] # Nil
  THEN [M |-> [M EXCEPT !.item[M.node[h]] = x], ret |-> Some(M.item[M.node[h]])]
  ELSE [M |-> push(M, h, x), ret |-> None]

replace(M, h, x) ==
  IF M.node[h] # Nil /\ x >= M.item[M.node[h]]
  THEN [M |-> [M EXCEPT !.item[M.node[h]] = x], ret |-> Some(M.item[M.node[h]])]
  ELSE LET S == pop_node(M, h)
       IN IF S.n = Nil THEN [M |-> push(S.M, h, x), ret |-> None]
          ELSE [M |-> push_node([S.M EXCEPT !.item[S.n] = x], h, S.n),
                ret |-> Some(S.M.item[S.n])]

\* spec_extend without the specialization feature: for item in items push.
RECURSIVE extend(_, _, _)
extend(M, h, xs) ==
  IF xs = << >> THEN M ELSE extend(push(M, h, Head(xs)), h, Tail(xs))

\* clone_from: the first loop, over nodes.zip(&mut other).  Zip asks the
\* Nodes first and the Iter second; a box without a partner is dropped, and
\* so is the rest of the Nodes when the Zip goes away.
\* The first loop of clone_from without node.item.clone_from(item).
RECURSIVE zipLoop_nocopy(_, _, _)
zipLoop_nocopy(M, h, it) ==
  LET S == Nodes_next(M, "tmp") IN
  IF S.n = Nil THEN [M |-> S.M, it |-> it]
  ELSE LET T == Iter_next(S.M, it) IN
       IF T.n = Nil
       THEN [M |-> Nodes_drop(dropBox(S.M, S.n), "tmp"), it |-> T.it]
       ELSE zipLoop_nocopy(push_node(S.M, h, S.n), h, T.it)

RECURSIVE zipLoop(_, _, _)
zipLoop(M, h, it) ==
  LET S == Nodes_next(M, "tmp") IN
  IF S.n = Nil THEN [M |-> S.M, it |-> it]
  ELSE LET T == Iter_next(S.M, it) IN
       IF T.n = Nil
       THEN [M |-> Nodes_drop(dropBox(S.M, S.n), "tmp"), it |-> T.it]
       ELSE zipLoop(push_node([S.M EXCEPT !.item[S.n] = S.M.item[T.n]], h, S.n),
                    h, T.it)

\* clone_from: the second loop, for item in other push(item.clone()).
RECURSIVE pushRest(_, _, _)
pushRest(M, h, it) ==
  LET T == Iter_next(M, it) IN
  IF T.n = Nil THEN M ELSE pushRest(push(M, h, M.item[T.n]), h, T.it)

clone_from(M, h, o) ==
  LET M1 == [M EXCEPT !.node["tmp"] = M.node[h], !.node[h] = Nil, !.len[h] = 0]
      Z == zipLoop(M1, h, SkewHeap_iter(M1, o))
  IN pushRest(Z.M, h, Z.it)

\* clone: self.iter().cloned().collect(), the new heap built in "tmp".
clone(M, o) == pushRest(M, "tmp", SkewHeap_iter(M, o))

\* ------------------------------------------------------------------------
\* Observations used by the properties.

\* The boxes reachable from box n through l and r.
RECURSIVE Closure(_, _)
Closure(M, S) ==
  LET T == S \cup (({M.l[n] : n \in S} \cup {M.r[n] : n \in S}) \ {Nil})
  IN IF T = S THEN S ELSE Closure(M, T)

Reach(M, n) == IF n = Nil THEN {} ELSE Closure(M, {n})
NodesOf(M, h) == Reach(M, M.node[h])

\* The items stored in a set of boxes, as a bag.
ItemsOf(M, S) ==
  [v \in {M.item[n] : n \in S} |-> Cardinality({n \in S : M.item[n] = v})]
ItemBag(M, h) == ItemsOf(M, NodesOf(M, h))

SeqBag(s) ==
  [v \in {s[i] : i \in DOMAIN s} |-> Cardinality({i \in DOMAIN s : s[i] = v})]

\* The items returned by calling pop until it returns None.
RECURSIVE Drain(_, _)
Drain(M, h) ==
  LET P == pop(M, h)
  IN IF P.ret = None THEN << >> ELSE << P.ret[1] >> \o Drain(P.M, h)

\* The items a borrowing iterator yields from now on.
RECURSIVE IterRest(_, _)
IterRest(M, it) ==
  LET T == Iter_next(M, it)
  IN IF T.n = Nil THEN << >> ELSE << M.item[T.n] >> \o IterRest(M, T.it)

\* ------------------------------------------------------------------------
\* The state machine.

NoBorrow == [active |-> FALSE, h |-> "", it |-> NoIter]
\* The record of a call: the method, the heap it ran on, the other heap it
\* was given, its argument, its result, and what len() and peek() of the two
\* heaps and len() of the two iterators were when it was called.
Op(name, h, o, arg, ret) ==
  [op |-> name, h |-> h, o |-> o, arg |-> arg, ret |-> ret,
   plen |-> [k \in Heaps |-> len[k]],
   ppeek |-> [k \in Heaps |-> peek(Mem, k)],
   piter |-> iter.it.len,
   pinto |-> len["it"]]

Init ==
  /\ l = EmptyMem.l
  /\ r = EmptyMem.r
  /\ item = EmptyMem.item
  /\ live = EmptyMem.live
  /\ node = EmptyMem.node
  /\ len = EmptyMem.len
  /\ fault = EmptyMem.fault
  /\ moved = {}
  /\ into = FALSE
  /\ iter = NoBorrow
  /\ last = Op("new", "", "", << >>, None)
  /\ bin = EmptyBag
  /\ binret = None
  /\ mg = [on |-> FALSE, op |-> "new", iters |-> 0]

\* A heap can be used when it holds a value, and mutated when no Iter
\* borrows it.
Usable(h) == h \notin moved
Mutable(h) == Usable(h) /\ (iter.active => iter.h # h)
Room == MaxNodes - Cardinality(live)
Vectors == UNION {[1..k -> Vals] : k \in 0..MaxExt}

DoPush(h, x) ==
  /\ Mutable(h)
  /\ Room >= 1
  /\ Store(push(Mem, h, x))
  /\ last' = Op("push", h, "", << x >>, None)
  /\ UNCHANGED << moved, into, iter >>

DoPop(h) ==
  /\ Mutable(h)
  /\ LET P == pop(Mem, h)
     IN Store(P.M) /\ last' = Op("pop", h, "", << >>, P.ret)
  /\ UNCHANGED << moved, into, iter >>

DoPushPop(h, x) ==
  /\ Mutable(h)
  /\ LET P == push_pop(Mem, h, x)
     IN Store(P.M) /\ last' = Op("push_pop", h, "", << x >>, Some(P.ret))
  /\ UNCHANGED << moved, into, iter >>

DoReplace(h, x) ==
  /\ Mutable(h)
  /\ node[h] = Nil => Room >= 1
  /\ LET P == replace(Mem, h, x)
     IN Store(P.M) /\ last' = Op("replace", h, "", << x >>, P.ret)
  /\ UNCHANGED << moved, into, iter >>

DoExtend(h, xs) ==
  /\ Mutable(h)
  /\ Room >= Len(xs)
  /\ Store(extend(Mem, h, xs))
  /\ last' = Op("extend", h, "", xs, None)
  /\ UNCHANGED << moved, into, iter >>

DoAppend(h, o) ==
  /\ h # o
  /\ Mutable(h)
  /\ Mutable(o)
  /\ Store(append(Mem, h, o))
  /\ last' = Op("append", h, o, << >>, None)
  /\ UNCHANGED << moved, into, iter >>

DoClear(h) ==
  /\ Mutable(h)
  /\ Store(clear(Mem, h))
  /\ last' = Op("clear", h, "", << >>, None)
  /\ UNCHANGED << moved, into, iter >>

DoCloneFrom(h, o) ==
  /\ h # o
  /\ Mutable(h)
  /\ Usable(o)
  /\ Room + Cardinality(NodesOf(Mem, h)) >= Cardinality(NodesOf(Mem, o))
  /\ Store(clone_from(Mem, h, o))
  /\ last' = Op("clone_from", h, o, << >>, None)
  /\ UNCHANGED << moved, into, iter >>

\* h = o.clone(): the clone is built, the old value of h (if it holds one)
\* is dropped, and the clone is moved into h.
DoClone(h, o) ==
  /\ h # o
  /\ h \in moved \/ Mutable(h)
  /\ Usable(o)
  /\ Room >= Cardinality(NodesOf(Mem, o))
  /\ LET M1 == clone(Mem, o)
         M2 == IF h \in moved THEN M1 ELSE Nodes_drop(M1, h)
     IN Store([M2 EXCEPT !.node[h] = M2.node["tmp"], !.len[h] = M2.len["tmp"],
                         !.node["tmp"] = Nil, !.len["tmp"] = 0])
  /\ moved' = moved \ {h}
  /\ last' = Op("clone", h, o, << >>, None)
  /\ UNCHANGED << into, iter >>

\* h = SkewHeap::new(), for a heap that was moved out of.
DoNew(h) ==
  /\ h \in moved
  /\ moved' = moved \ {h}
  /\ last' = Op("new", h, "", << >>, None)
  /\ UNCHANGED << memvars, into, iter >>

\* let iter = h.iter()
DoIter(h) ==
  /\ Usable(h)
  /\ ~iter.active
  /\ iter' = [active |-> TRUE, h |-> h, it |-> SkewHeap_iter(Mem, h)]
  /\ last' = Op("iter", h, "", << >>, None)
  /\ UNCHANGED << memvars, moved, into >>

DoIterNext ==
  /\ iter.active
  /\ LET T == Iter_next(Mem, iter.it)
     IN /\ iter' = [iter EXCEPT !.it = T.it]
        /\ last' = Op("iter_next", iter.h, "", << >>,
                      IF T.n = Nil THEN None ELSE Some(item[T.n]))
  /\ UNCHANGED << memvars, moved, into >>

DoIterDrop ==
  /\ iter.active
  /\ iter' = NoBorrow
  /\ last' = Op("iter_drop", iter.h, "", << >>, None)
  /\ UNCHANGED << memvars, moved, into >>

\* into_iter moves the nodes and the len of the heap into the IntoIter.
into_iter(M, h) ==
  [M EXCEPT !.node["it"] = M.node[h], !.len["it"] = M.len[h],
            !.node[h] = Nil, !.len[h] = 0]

\* let it = h.into_iter()
DoIntoIter(h) ==
  /\ Mutable(h)
  /\ ~into
  /\ Store(into_iter(Mem, h))
  /\ moved' = moved \cup {h}
  /\ into' = TRUE
  /\ last' = Op("into_iter", h, "", << >>, None)
  /\ UNCHANGED iter

\* IntoIter::next without the decrement of len.
IntoIter_next_nodec(M) ==
  LET S == Nodes_next(M, "it")
  IN IF S.n = Nil THEN [M |-> S.M, ret |-> None]
     ELSE [M |-> dropBox(S.M, S.n), ret |-> Some(S.M.item[S.n])]

\* IntoIter::next
IntoIter_next(M) ==
  LET S == Nodes_next(M, "it")
  IN IF S.n = Nil THEN [M |-> S.M, ret |-> None]
     ELSE [M |-> dropBox([S.M EXCEPT !.len["it"] = @ - 1], S.n),
           ret |-> Some(S.M.item[S.n])]

\* The items the IntoIter yields from now on.
RECURSIVE IntoIterRest(_)
IntoIterRest(M) ==
  LET P == IntoIter_next(M)
  IN IF P.ret = None THEN << >> ELSE << P.ret[1] >> \o IntoIterRest(P.M)

\* extend(other) with a heap as the source.  Without the specialization
\* feature the heap is turned into its IntoIter and every item is pushed;
\* with it, spec_extend is one append.
RECURSIVE pushAll(_, _)
pushAll(M, h) ==
  LET P == IntoIter_next(M)
  IN IF P.ret = None THEN P.M ELSE pushAll(push(P.M, h, P.ret[1]), h)

spec_extend_default(M, h, o) == pushAll(into_iter(M, o), h)
spec_extend_heap(M, h, o) == append(M, h, o)

DoIntoIterNext ==
  /\ into
  /\ LET P == IntoIter_next(Mem)
     IN Store(P.M) /\ last' = Op("into_iter_next", "it", "", << >>, P.ret)
  /\ UNCHANGED << moved, into, iter >>

DoIntoIterDrop ==
  /\ into
  /\ Store([Nodes_drop(Mem, "it") EXCEPT !.len["it"] = 0])
  /\ into' = FALSE
  /\ last' = Op("into_iter_drop", "it", "", << >>, None)
  /\ UNCHANGED << moved, iter >>

\* ------------------------------------------------------------------------
\* The program: any sequence of the mutating methods on two heaps.
Push == \E h \in Heaps, x \in Vals : DoPush(h, x) /\ UNCHANGED << bin, binret, mg >>
Pop == \E h \in Heaps : DoPop(h) /\ UNCHANGED << bin, binret, mg >>
PushPop == \E h \in Heaps, x \in Vals : DoPushPop(h, x) /\ UNCHANGED << bin, binret, mg >>
Replace == \E h \in Heaps, x \in Vals : DoReplace(h, x) /\ UNCHANGED << bin, binret, mg >>
Extend == \E h \in Heaps, xs \in Vectors : DoExtend(h, xs) /\ UNCHANGED << bin, binret, mg >>
AppendOp == \E h \in Heaps, o \in Heaps : DoAppend(h, o) /\ UNCHANGED << bin, binret, mg >>
Clear == \E h \in Heaps : DoClear(h) /\ UNCHANGED << bin, binret, mg >>
CloneFrom == \E h \in Heaps, o \in Heaps : DoCloneFrom(h, o) /\ UNCHANGED << bin, binret, mg >>
Clone == \E h \in Heaps, o \in Heaps : DoClone(h, o) /\ UNCHANGED << bin, binret, mg >>

Next ==
  \/ Push
  \/ Pop
  \/ PushPop
  \/ Replace
  \/ Extend
  \/ AppendOp
  \/ Clear
  \/ CloneFrom
  \/ Clone

Spec == Init /\ [][Next]_vars

\* ------------------------------------------------------------------------
\* The differential test: Op::exec on heap h1 in lockstep with
\* Op::exec_binary on the reference BinaryHeap.
BinPush(b, x) == b (+) SetToBag({x})
BinPop(b) ==
  IF BagToSet(b) = {} THEN [bin |-> b, ret |-> None]
  ELSE LET m == CHOOSE v \in BagToSet(b) : \A w \in BagToSet(b) : w <= v
       IN [bin |-> b (-) SetToBag({m}), ret |-> Some(m)]
BinPeek(b) == BinPop(b).ret
BinLen(b) == BagCardinality(b)

RECURSIVE BinExtend(_, _)
BinExtend(b, xs) ==
  IF xs = << >> THEN b ELSE BinExtend(BinPush(b, Head(xs)), Tail(xs))

RECURSIVE BinDrain(_)
BinDrain(b) ==
  LET P == BinPop(b)
  IN IF P.ret = None THEN << >> ELSE << P.ret[1] >> \o BinDrain(P.bin)

RefExtend ==
  \E xs \in Vectors :
    /\ DoExtend("h1", xs)
    /\ bin' = BinExtend(bin, xs)
    /\ binret' = None
    /\ UNCHANGED mg

RefPop ==
  /\ DoPop("h1")
  /\ bin' = BinPop(bin).bin
  /\ binret' = BinPop(bin).ret
  /\ UNCHANGED mg

RefPush ==
  \E x \in Vals :
    /\ DoPush("h1", x)
    /\ bin' = BinPush(bin, x)
    /\ binret' = None
    /\ UNCHANGED mg

RefPushPop ==
  \E x \in Vals :
    /\ DoPushPop("h1", x)
    /\ bin' = BinPop(BinPush(bin, x)).bin
    /\ binret' = BinPop(BinPush(bin, x)).ret
    /\ UNCHANGED mg

RefReplace ==
  \E x \in Vals :
    /\ DoReplace("h1", x)
    /\ bin' = BinPush(BinPop(bin).bin, x)
    /\ binret' = BinPop(bin).ret
    /\ UNCHANGED mg

NextRef ==
  \/ RefExtend
  \/ RefPop
  \/ RefPush
  \/ RefPushPop
  \/ RefReplace

SpecRef == Init /\ [][NextRef]_vars

\* ------------------------------------------------------------------------
\* The iterators: heap h1 is built with the operations of the tests, and
\* borrowed by an Iter or consumed by an IntoIter that is then stepped.
BuildExtend == \E xs \in Vectors : DoExtend("h1", xs) /\ UNCHANGED << bin, binret, mg >>
BuildPop == DoPop("h1") /\ UNCHANGED << bin, binret, mg >>
BuildPush == \E x \in Vals : DoPush("h1", x) /\ UNCHANGED << bin, binret, mg >>
BuildPushPop == \E x \in Vals : DoPushPop("h1", x) /\ UNCHANGED << bin, binret, mg >>
BuildReplace == \E x \in Vals : DoReplace("h1", x) /\ UNCHANGED << bin, binret, mg >>
New == DoNew("h1") /\ UNCHANGED << bin, binret, mg >>
IterOp == DoIter("h1") /\ UNCHANGED << bin, binret, mg >>
IterNext == DoIterNext /\ UNCHANGED << bin, binret, mg >>
IterDrop == DoIterDrop /\ UNCHANGED << bin, binret, mg >>
IntoIter == DoIntoIter("h1") /\ UNCHANGED << bin, binret, mg >>
IntoIterNext == DoIntoIterNext /\ UNCHANGED << bin, binret, mg >>
IntoIterDrop == DoIntoIterDrop /\ UNCHANGED << bin, binret, mg >>

NextIter ==
  \/ BuildExtend
  \/ BuildPop
  \/ BuildPush
  \/ BuildPushPop
  \/ BuildReplace
  \/ New
  \/ IterOp
  \/ IterNext
  \/ IterDrop
  \/ IntoIter
  \/ IntoIterNext
  \/ IntoIterDrop

SpecIter == Init /\ [][NextIter]_vars

\* ------------------------------------------------------------------------
\* merge stepped: push on both heaps, pop on h1 and h1.append(&mut h2), with
\* every turn of the loop of merge a step of its own.  mg holds the slot a and the tree b of
\* the call, the number of turns taken with both sides present, and what the
\* two trees were when merge was called.

\* The number of boxes on the path from box n along r.
RECURSIVE RSpine(_, _)
RSpine(M, n) == IF n = Nil THEN 0 ELSE 1 + RSpine(M, M.r[n])

MergeRoom == MaxMerge - Cardinality(live)

\* merge(&mut self.nodes.node, b) is entered with memory M by method op;
\* pend is the box the caller gives up once merge has returned.
CallMerge(M, op, h, b, pend) ==
  /\ Store(M)
  /\ mg' = [on |-> TRUE, op |-> op, h |-> h, a |-> RootSlot(h), b |-> b,
            iters |-> 0,
            spine |-> RSpine(M, M.node[h]) + RSpine(M, b),
            na |-> Reach(M, M.node[h]), nb |-> Reach(M, b),
            a0 |-> M.node[h], b0 |-> b, m0 |-> M, pend |-> pend]

MergePush ==
  \E h \in Heaps, x \in Vals :
    /\ ~mg.on
    /\ MergeRoom >= 1
    /\ LET n == NewId(Mem)
           M1 == NewNode(Mem, x)
           M2 == [M1 EXCEPT !.fault = @ \/ M1.l[n] # Nil \/ M1.r[n] # Nil,
                            !.len[h] = @ + 1]
       IN CallMerge(M2, "push", h, n, Nil)
    /\ UNCHANGED << moved, into, iter, last, bin, binret >>

MergePop ==
  \E h \in {"h1"} :
    /\ ~mg.on
    /\ node[h] # Nil
    /\ LET n == node[h]
       IN CallMerge([Mem EXCEPT !.len[h] = @ - 1, !.node[h] = l[n],
                                !.l[n] = Nil, !.r[n] = Nil], "pop", h, r[n], n)
    /\ UNCHANGED << moved, into, iter, last, bin, binret >>

MergeAppend ==
  \E h \in {"h1"}, o \in {"h2"} :
    /\ ~mg.on
    /\ h # o
    /\ CallMerge([Mem EXCEPT !.len[h] = @ + len[o], !.len[o] = 0,
                             !.node[o] = Nil], "append", h, node[o], Nil)
    /\ UNCHANGED << moved, into, iter, last, bin, binret >>

\* A turn of the loop with both sides present.
MergeIterate ==
  /\ mg.on
  /\ Get(Mem, mg.a) # Nil
  /\ mg.b # Nil
  /\ LET S == mergeIter(Mem, mg.a, mg.b)
     IN /\ Store(S.M)
        /\ mg' = [mg EXCEPT !.a = S.a, !.b = S.b, !.iters = @ + 1]
  /\ UNCHANGED << moved, into, iter, last, bin, binret >>

\* The turn that returns: one side is absent.  pop then gives up the box it
\* took the item from.  What is kept of the call is the method and the
\* number of turns.
MergeReturn ==
  /\ mg.on
  /\ Get(Mem, mg.a) = Nil \/ mg.b = Nil
  /\ LET M1 == IF Get(Mem, mg.a) = Nil THEN Put(Mem, mg.a, mg.b) ELSE Mem
     IN Store(dropBox(M1, mg.pend))
  /\ mg' = [on |-> FALSE, op |-> mg.op, iters |-> mg.iters]
  /\ UNCHANGED << moved, into, iter, last, bin, binret >>

NextMerge ==
  \/ MergePush
  \/ MergePop
  \/ MergeAppend
  \/ MergeIterate
  \/ MergeReturn

SpecMerge == Init /\ [][NextMerge]_vars

\* ------------------------------------------------------------------------
\* Properties.

IsDescending(s) == \A i \in 1..(Len(s) - 1) : s[i] >= s[i + 1]

\* C1: after every step of the differential test the result of the
\* operation, peek() and len() are the same for the skew heap and for the
\* reference max-heap, and popping both until empty gives the same
\* non-increasing sequence, both running out at the same pop.
C1_AgreesWithBinaryHeap ==
  /\ last.ret = binret
  /\ peek(Mem, "h1") = BinPeek(bin)
  /\ len["h1"] = BinLen(bin)
  /\ Drain(Mem, "h1") = BinDrain(bin)
  /\ IsDescending(Drain(Mem, "h1"))

C1_Witness ==
  /\ last.op = "push_pop"
  /\ last.arg = << 1 >>
  /\ last.ret = Some(2)
  /\ binret = Some(2)
  /\ Drain(Mem, "h1") = << 2, 1, 1 >>

\* C2: in every heap every node's item is greater than or equal to the
\* items of its children, and the root's item is a maximum of the heap.
C2_HeapOrder ==
  \A h \in Heaps :
    \A n \in NodesOf(Mem, h) :
      /\ l[n] # Nil => item[n] >= item[l[n]]
      /\ r[n] # Nil => item[n] >= item[r[n]]
      /\ item[node[h]] >= item[n]

C2_Witness ==
  \E h \in Heaps :
    /\ last.op = "replace"
    /\ last.h = h
    /\ last.ppeek[h] = Some(1)
    /\ last.arg = << 2 >>
    /\ Cardinality(NodesOf(Mem, h)) = 3

\* C3: the len of every heap is the number of nodes reachable from its root.
C3_CountInvariant ==
  \A h \in Heaps : len[h] = Cardinality(NodesOf(Mem, h))

C3_Witness ==
  /\ last.op = "append"
  /\ last.plen[last.h] = 2
  /\ last.plen[last.o] = 1
  /\ len[last.h] = 3
  /\ len[last.o] = 0

\* The greatest item of a non-empty bag, and the bag with one occurrence of
\* item old exchanged for item new.
BagMax(b) == CHOOSE v \in BagToSet(b) : \A w \in BagToSet(b) : w <= v
BagSwap(b, old, new) == (b (-) SetToBag({old})) (+) SetToBag({new})

\* The step just taken was the call of method name on heap h with other heap
\* o and argument arg.
Called(name, h, o, arg) ==
  /\ last'.op = name
  /\ last'.h = h
  /\ last'.o = o
  /\ last'.arg = arg

\* C4: a.append(b) leaves b a valid empty heap, a.len() the sum of the two
\* lengths before the call, and in a the bag union of the items the two
\* heaps held before the call.
C4_AppendPost(a, b) ==
  /\ is_empty(MemP, b)
  /\ len'[b] = 0
  /\ peek(MemP, b) = None
  /\ IterRest(MemP, SkewHeap_iter(MemP, b)) = << >>
  /\ len'[a] = len[a] + len[b]
  /\ ItemBag(MemP, a) = ItemBag(Mem, a) (+) ItemBag(Mem, b)
  /\ BagCardinality(ItemBag(MemP, a)) = len[a] + len[b]

C4_Append ==
  [][\A a \in Heaps, b \in Heaps :
       Called("append", a, b, << >>) => C4_AppendPost(a, b)]_vars

C4_Witness ==
  /\ last.op = "append"
  /\ last.plen[last.h] = 1
  /\ last.plen[last.o] = 2
  /\ last.ppeek[last.h] = Some(1)
  /\ last.ppeek[last.o] = Some(2)
  /\ ItemBag(Mem, last.h) = SeqBag(<< 1, 1, 2 >>)
  /\ node[last.o] = Nil

\* C5: push_pop(x) returns x and leaves an empty heap empty; returns x and
\* leaves the heap, tree included, as it was when x is not smaller than the
\* greatest item; otherwise returns the greatest item, whose occurrence in
\* the bag of items x takes.  len() is the same after the call in all cases.
C5_PushPopPost(h, x) ==
  LET b == ItemBag(Mem, h) IN
  /\ len'[h] = len[h]
  /\ BagToSet(b) = {} =>
       /\ last'.ret = Some(x)
       /\ is_empty(MemP, h)
       /\ ItemBag(MemP, h) = EmptyBag
  /\ BagToSet(b) # {} /\ x >= BagMax(b) =>
       /\ last'.ret = Some(x)
       /\ UNCHANGED memvars
  /\ BagToSet(b) # {} /\ x < BagMax(b) =>
       /\ last'.ret = Some(BagMax(b))
       /\ ItemBag(MemP, h) = BagSwap(b, BagMax(b), x)

C5_PushPop ==
  [][\A h \in Heaps, x \in Vals :
       Called("push_pop", h, "", << x >>) => C5_PushPopPost(h, x)]_vars

C5_Witness ==
  /\ last.op = "push_pop"
  /\ last.arg = << 1 >>
  /\ last.ppeek[last.h] = Some(2)
  /\ last.ret = Some(2)
  /\ last.plen[last.h] = 3
  /\ ItemBag(Mem, last.h) = SeqBag(<< 1, 1, 2 >>)

\* C6: replace(x) returns nothing on an empty heap, which then holds x alone;
\* on a non-empty heap it returns the greatest item, whose occurrence in the
\* bag of items x takes, and len() stays; len() grows, by one, on the empty
\* heap only.
C6_ReplacePost(h, x) ==
  LET b == ItemBag(Mem, h) IN
  /\ BagToSet(b) = {} =>
       /\ last'.ret = None
       /\ ItemBag(MemP, h) = SetToBag({x})
       /\ len[h] = 0
       /\ len'[h] = 1
  /\ BagToSet(b) # {} =>
       /\ last'.ret = Some(BagMax(b))
       /\ ItemBag(MemP, h) = BagSwap(b, BagMax(b), x)
       /\ len'[h] = len[h]

C6_Replace ==
  [][\A h \in Heaps, x \in Vals :
       Called("replace", h, "", << x >>) => C6_ReplacePost(h, x)]_vars

C6_Witness ==
  /\ last.op = "replace"
  /\ last.arg = << 2 >>
  /\ last.ppeek[last.h] = Some(2)
  /\ last.ret = Some(2)
  /\ last.plen[last.h] = 2
  /\ ItemBag(Mem, last.h) = SeqBag(<< 1, 2 >>)

IsSuffix(s, t) ==
  Len(s) <= Len(t) /\ s = SubSeq(t, Len(t) - Len(s) + 1, Len(t))

\* C7: run to exhaustion, the borrowing and the consuming traversal of a heap
\* each yield the bag of the items stored in the heap; a borrowing iterator
\* under way has the rest of that traversal before it.
C7_TraversalBags ==
  /\ \A h \in Heaps :
       Usable(h) =>
         /\ SeqBag(IterRest(Mem, SkewHeap_iter(Mem, h))) = ItemBag(Mem, h)
         /\ SeqBag(IntoIterRest(into_iter(Mem, h))) = ItemBag(Mem, h)
  /\ iter.active =>
       IsSuffix(IterRest(Mem, iter.it), IterRest(Mem, SkewHeap_iter(Mem, iter.h)))
  /\ into => SeqBag(IntoIterRest(Mem)) = ItemsOf(Mem, NodesOf(Mem, "it"))

C7_Witness ==
  /\ iter.active
  /\ last.op = "iter_next"
  /\ last.ret = None
  /\ len[iter.h] = 3
  /\ IterRest(Mem, SkewHeap_iter(Mem, iter.h)) = << 2, 1, 2 >>
  /\ \E n \in NodeIds : l[n] # Nil /\ r[n] # Nil

\* C8: after h1.clone_from(&h2), and after h1 = h2.clone(), h2 is as it was,
\* h1.len() is h2.len(), h1 holds the bag of items of h2, and popping both
\* until empty gives the same sequence.
C8_ClonePost(h, o) ==
  /\ node'[o] = node[o]
  /\ len'[o] = len[o]
  /\ \A n \in NodesOf(Mem, o) :
       /\ n \in live'
       /\ l'[n] = l[n]
       /\ r'[n] = r[n]
       /\ item'[n] = item[n]
  /\ len'[h] = len'[o]
  /\ ItemBag(MemP, h) = ItemBag(MemP, o)
  /\ ItemBag(MemP, o) = ItemBag(Mem, o)
  /\ Drain(MemP, h) = Drain(MemP, o)
  /\ NodesOf(MemP, h) \cap NodesOf(MemP, o) = {}

C9_Emptiness ==
  \A h \in Heaps :
    /\ (len[h] = 0) <=> is_empty(Mem, h)
    /\ is_empty(Mem, h) <=> (peek(Mem, h) = None)
    /\ (peek(Mem, h) = None) <=> (IterRest(Mem, SkewHeap_iter(Mem, h)) = << >>)

C9_Witness ==
  /\ last.op = "pop"
  /\ last.ret = Some(1)
  /\ last.plen[last.h] = 1
  /\ len[last.h] = 0
  /\ is_empty(Mem, last.h)

\* C10: the len a borrowing or consuming iterator reports is the number of
\* items it will still yield: it starts at the len of the heap, goes down by
\* one with every item yielded, and is 0 exactly when next() yields nothing.
C10_ExactSize ==
  /\ iter.active =>
       /\ iter.it.len = Len(IterRest(Mem, iter.it))
       /\ (iter.it.len = 0) <=> (Iter_next(Mem, iter.it).n = Nil)
  /\ into =>
       /\ len["it"] = Len(IntoIterRest(Mem))
       /\ (len["it"] = 0) <=> (IntoIter_next(Mem).ret = None)
  /\ last.op = "iter" => iter.it.len = len[last.h]
  /\ last.op = "into_iter" => len["it"] = last.plen[last.h]
  /\ last.op = "iter_next" =>
       /\ last.ret # None => iter.it.len = last.piter - 1
       /\ last.ret = None => iter.it.len = 0 /\ last.piter = 0
  /\ last.op = "into_iter_next" =>
       /\ last.ret # None => len["it"] = last.pinto - 1
       /\ last.ret = None => len["it"] = 0 /\ last.pinto = 0

C10_Witness ==
  /\ into
  /\ last.op = "into_iter_next"
  /\ last.ret = Some(1)
  /\ last.pinto = 3
  /\ len["it"] = 2
  /\ IntoIterRest(Mem) = << 2, 1 >>

\* C11: on an empty heap pop() and peek() return nothing and leave the heap
\* empty with len() 0, however often pop is called; len never goes below 0.
C11_EmptyPop ==
  \A h \in Heaps :
    /\ len[h] >= 0
    /\ is_empty(Mem, h) =>
         /\ peek(Mem, h) = None
         /\ pop(Mem, h).ret = None
         /\ pop(Mem, h).M = Mem
         /\ pop(pop(Mem, h).M, h).ret = None
    /\ (last.op = "pop" /\ last.h = h /\ last.ppeek[h] = None) =>
         /\ last.ret = None
         /\ is_empty(Mem, h)
         /\ peek(Mem, h) = None
         /\ len[h] = 0

C11_Witness ==
  /\ last.op = "pop"
  /\ last.ppeek[last.h] = None
  /\ last.plen[last.h] = 0
  /\ last.ret = None
  /\ len[last.h] = 0
  /\ live # {}

\* C12: extending heap a with heap b by one append and by pushing the
\* items of b's consuming traversal one by one give heaps with the same
\* len(), the same peek() and the same sequence of popped items.
C12_SameHeap(h, o) ==
  LET A == spec_extend_heap(Mem, h, o)
      B == spec_extend_default(Mem, h, o)
  IN /\ A.len[h] = B.len[h]
     /\ peek(A, h) = peek(B, h)
     /\ Drain(A, h) = Drain(B, h)
     /\ A.len[h] = len[h] + len[o]

C12_ExtendFastPath ==
  \A h \in Heaps, o \in Heaps : h # o => C12_SameHeap(h, o)

C12_Witness ==
  \E h \in Heaps, o \in Heaps :
    /\ h # o
    /\ len[h] = 1
    /\ len[o] = 2
    /\ Drain(spec_extend_heap(Mem, h, o), h) = << 2, 2, 1 >>
    /\ Drain(spec_extend_default(Mem, h, o), h) = << 2, 2, 1 >>
    /\ spec_extend_heap(Mem, h, o).l # spec_extend_default(Mem, h, o).l

\* ------------------------------------------------------------------------
\* The consuming walker: heap h1 is built by push and pop, and is cleared, or
\* is consumed by an IntoIter that is stepped or dropped.
WalkRoom == MaxWalk - Cardinality(live)
WalkOp(name) == [op |-> name]

WalkPush ==
  \E x \in Vals :
    /\ Mutable("h1")
    /\ WalkRoom >= 1
    /\ Store(push(Mem, "h1", x))
    /\ last' = WalkOp("push")
    /\ UNCHANGED << moved, into, iter, bin, binret, mg >>

WalkPop ==
  /\ Mutable("h1")
  /\ Store(pop(Mem, "h1").M)
  /\ last' = WalkOp("pop")
  /\ UNCHANGED << moved, into, iter, bin, binret, mg >>

WalkClear ==
  /\ Mutable("h1")
  /\ Store(clear(Mem, "h1"))
  /\ last' = WalkOp("clear")
  /\ UNCHANGED << moved, into, iter, bin, binret, mg >>

WalkNew ==
  /\ "h1" \in moved
  /\ moved' = moved \ {"h1"}
  /\ last' = WalkOp("new")
  /\ UNCHANGED << memvars, into, iter, bin, binret, mg >>

WalkIntoIter ==
  /\ Mutable("h1")
  /\ ~into
  /\ Store(into_iter(Mem, "h1"))
  /\ moved' = moved \cup {"h1"}
  /\ into' = TRUE
  /\ last' = WalkOp("into_iter")
  /\ UNCHANGED << iter, bin, binret, mg >>

WalkNext ==
  /\ into
  /\ Store(IntoIter_next(Mem).M)
  /\ last' = WalkOp("into_iter_next")
  /\ UNCHANGED << moved, into, iter, bin, binret, mg >>

WalkDrop ==
  /\ into
  /\ Store([Nodes_drop(Mem, "it") EXCEPT !.len["it"] = 0])
  /\ into' = FALSE
  /\ last' = WalkOp("into_iter_drop")
  /\ UNCHANGED << moved, iter, bin, binret, mg >>

NextWalk ==
  \/ WalkPush
  \/ WalkPop
  \/ WalkClear
  \/ WalkNew
  \/ WalkIntoIter
  \/ WalkNext
  \/ WalkDrop

SpecWalk == Init /\ [][NextWalk]_vars

\* ------------------------------------------------------------------------
\* Properties.

\* The boxes of set T, with root n, form one binary tree in memory M: no box
\* of T points at the root, and every other box of T is pointed at by
\* exactly one l or r field of a box of T.
Parents(M, T, n) ==
  {<< p, "l" >> : p \in {q \in T : M.l[q] = n}}
    \cup {<< p, "r" >> : p \in {q \in T : M.r[q] = n}}

IsTree(M, n, T) ==
  /\ T = Reach(M, n)
  /\ \A c \in T : Cardinality(Parents(M, T, c)) = IF c = n THEN 0 ELSE 1

HeapOrdered(M, T) ==
  \A n \in T :
    /\ M.l[n] # Nil => M.item[n] >= M.item[M.l[n]]
    /\ M.r[n] # Nil => M.item[n] >= M.item[M.r[n]]

\* The step just taken was a turn of merge's loop with both sides present,
\* or the turn in which merge returned.
MergeTurned == mg.on /\ mg'.on /\ mg'.iters = mg.iters + 1
MergeReturned == mg.on /\ ~mg'.on

\* What is left to merge: the boxes below slot a and in b.
MergeLeft(M, g) == Reach(M, Get(M, g.a)) \cup Reach(M, g.b)

\* C13: merge of two heap-ordered trees A and B, either of which may be
\* absent, terminates, and leaves in A's slot one heap-ordered binary tree
\* whose boxes are the boxes of A and the boxes of B, each once.
C13_MergePost ==
  LET T == NodesOf(MemP, mg.h) IN
  /\ HeapOrdered(mg.m0, mg.na) /\ HeapOrdered(mg.m0, mg.nb)
  /\ mg.na \cap mg.nb = {}
  /\ T = mg.na \cup mg.nb
  /\ IsTree(MemP, node'[mg.h], T)
  /\ HeapOrdered(MemP, T)
  /\ \A n \in T : item'[n] = mg.m0.item[n]
  /\ ItemsOf(MemP, T) = ItemsOf(mg.m0, mg.na) (+) ItemsOf(mg.m0, mg.nb)

C13_MergeContract ==
  [][/\ MergeReturned => C13_MergePost
     /\ MergeTurned =>
          Cardinality(MergeLeft(MemP, mg')) < Cardinality(MergeLeft(Mem, mg))]_vars

C13_Witness ==
  /\ ~mg.on
  /\ mg.op = "append"
  /\ mg.iters = 2
  /\ Cardinality(NodesOf(Mem, "h1")) = 4
  /\ \E n \in NodeIds : l[n] # Nil /\ r[n] # Nil

\* In a turn of merge's loop with both sides present: the box that holds the
\* larger-or-equal root (A after the comparison) and the other box (B).
TurnA == IF item[Get(Mem, mg.a)] < item[mg.b] THEN mg.b ELSE Get(Mem, mg.a)
TurnB == IF item[Get(Mem, mg.a)] < item[mg.b] THEN Get(Mem, mg.a) ELSE mg.b

\* C14 as stated: in every turn with both sides present, B becomes A's new
\* left child, the new B is A's pre-skew left child, and the next turn works
\* on A's right child (read as the right child before or after the turn).
C14_Original ==
  [][MergeTurned =>
       /\ l'[TurnA] = TurnB
       /\ mg'.b = l[TurnA]
       /\ Get(MemP, mg'.a) \in {r[TurnA], r'[TurnA]}]_vars

\* C14 amended: in every turn with both sides present, A ends in the slot
\* with the larger-or-equal root (the box already in the slot on ties), B
\* becomes A's new left child, A's pre-skew left child becomes its right
\* child, the new B is A's pre-skew right child, and the next turn works on
\* A's left field, where B now sits.
C14_MergeIteration ==
  [][MergeTurned =>
       /\ Get(MemP, mg.a) = TurnA
       /\ item[TurnA] >= item[TurnB]
       /\ (item[Get(Mem, mg.a)] = item[mg.b] => TurnA = Get(Mem, mg.a))
       /\ l'[TurnA] = TurnB
       /\ r'[TurnA] = l[TurnA]
       /\ mg'.b = r[TurnA]
       /\ mg'.a = LeftSlot(TurnA)
       /\ Get(MemP, mg'.a) = TurnB]_vars

\* A turn has been taken on a box that had both children: its old left
\* child is now its right child and its old right child is the new B.
C14_Witness ==
  /\ mg.on
  /\ mg.iters >= 1
  /\ mg.a[1] = "l"
  /\ mg.b # Nil
  /\ r[mg.a[2]] # Nil
  /\ l[mg.a[2]] # Nil

\* C15: while merge runs, the number of turns of its loop taken with both
\* sides present is at most the number of boxes on the right spine of A plus
\* the number on the right spine of B, both counted when merge was called.
C15_SpineBound ==
  mg.on => /\ mg.spine = RSpine(mg.m0, mg.a0) + RSpine(mg.m0, mg.b0)
           /\ mg.iters <= mg.spine

\* A merge that took two turns, at the bound less one, on trees that have
\* more boxes than their right spines.
C15_Witness ==
  /\ mg.on
  /\ mg.iters = 2
  /\ mg.spine = 3
  /\ (Get(Mem, mg.a) = Nil \/ mg.b = Nil)
  /\ Cardinality(mg.na \cup mg.nb) > mg.spine

\* The boxes that repeated calls of Nodes::next on holder k yield, in order,
\* each dropped by the caller before the next call, and the memory when
\* next reports exhaustion.
RECURSIVE Walk(_, _)
Walk(M, k) ==
  LET S == Nodes_next(M, k)
  IN IF S.n = Nil THEN [seq |-> << >>, M |-> S.M]
     ELSE LET W == Walk(dropBox(S.M, S.n), k)
          IN [seq |-> << S.n >> \o W.seq, M |-> W.M]

\* The number of rotations the next call of Nodes::next makes: the length of
\* the chain of left fields below the box in the slot.
RECURSIVE LSpine(_, _)
LSpine(M, n) == IF n = Nil THEN 0 ELSE 1 + LSpine(M, M.l[n])

\* One call of Nodes::next on holder k: it yields a box of the tree with both
\* fields emptied, and what stays in the slot is one tree of all the others.
WalkStep(M, k) ==
  LET S == Nodes_next(M, k)
      T == NodesOf(M, k)
  IN IF T = {} THEN S.n = Nil /\ S.M = M
     ELSE /\ S.n \in T
          /\ S.M.l[S.n] = Nil /\ S.M.r[S.n] = Nil
          /\ NodesOf(S.M, k) = T \ {S.n}
          /\ IsTree(S.M, S.M.node[k], T \ {S.n})
          /\ ItemsOf(S.M, T) = ItemsOf(M, T)
          /\ LSpine(M, M.node[k]) <= Cardinality(T)

\* C16: the tree in a heap (what clear and into_iter give the walker) and the
\* tree in the walker's slot between any two calls are each one tree; from
\* there one call of Nodes::next yields one box and leaves one tree of the
\* others, repeated calls yield every box exactly once and end with the slot
\* absent, and dropping the walker or clearing the heap frees exactly the
\* boxes of the tree.
C16_Walker ==
  \A k \in {"h1", "it"} :
    LET T == NodesOf(Mem, k)
        W == Walk(Mem, k)
    IN /\ IsTree(Mem, node[k], T)
       /\ WalkStep(Mem, k)
       /\ Len(W.seq) = Cardinality(T)
       /\ {W.seq[i] : i \in DOMAIN W.seq} = T
       /\ W.M.node[k] = Nil
       /\ Nodes_next(W.M, k).n = Nil
       /\ Nodes_drop(Mem, k).node[k] = Nil
       /\ Nodes_drop(Mem, k).live = live \ T
       /\ clear(Mem, k).live = live \ T
       /\ clear(Mem, k).node[k] = Nil

\* The walker has yielded a box after a rotation that moved a right child,
\* and its next call has a rotation to make.
C16_Witness ==
  /\ into
  /\ last.op = "into_iter_next"
  /\ Cardinality(NodesOf(Mem, "it")) = 2
  /\ l[node["it"]] # Nil

\* The places a box is referenced from: the fields of live boxes and the
\* root fields of the holders.
RefsTo(M, n) ==
  Parents(M, M.live, n) \cup {<< k, "root" >> : k \in {j \in Holders : M.node[j] = n}}

C17_Inv ==
  /\ \A h \in Heaps :
       /\ IsTree(Mem, node[h], NodesOf(Mem, h))
       /\ NodesOf(Mem, h) \subseteq live
  /\ \A h \in Holders, k \in Holders :
       h # k => NodesOf(Mem, h) \cap NodesOf(Mem, k) = {}
  /\ \A n \in live : Cardinality(RefsTo(Mem, n)) <= 1
  /\ last.op = "append" => node[last.o] = Nil /\ NodesOf(Mem, last.o) = {}

C17_Step ==
  \A h \in Heaps, o \in Heaps :
    /\ Called("append", h, o, << >>) =>
         /\ NodesOf(MemP, h) = NodesOf(Mem, h) \cup NodesOf(Mem, o)
         /\ NodesOf(MemP, o) = {}
    /\ Called("clone_from", h, o, << >>) =>
         /\ NodesOf(MemP, o) = NodesOf(Mem, o)
         /\ \A n \in NodesOf(Mem, h) \cap live' :
              n \in NodesOf(MemP, h) /\ n \notin NodesOf(MemP, o)
         /\ node'["tmp"] = Nil

\* C17: between public operations the boxes of each heap form one binary
\* tree (every box referenced from at most one field or root, the root from
\* no field, hence no cycle), no box is reachable from two heaps, after
\* a.append(b) nothing is reachable from b and a holds the boxes of both, and
\* after clone_from the boxes of the destination that were kept are
\* reachable from the destination only.
C17_Ownership == []C17_Inv /\ [][C17_Step]_vars

\* a.append(b) of a heap of one box and a heap of two has just returned.
C17_Witness ==
  /\ last.op = "append"
  /\ last.plen[last.h] = 1
  /\ last.plen[last.o] = 2
  /\ Cardinality(NodesOf(Mem, last.h)) = 3
  /\ NodesOf(Mem, last.o) = {}
  /\ \E n \in live : Cardinality(RefsTo(Mem, n)) = 1

\* The recursive meld of the trees at boxes a and b (Nil when absent): the
\* box W with the larger item (a on ties) gets as left child the meld of its
\* old right child with the other tree, in this order, and as right child
\* its old left child.  The result is the memory and the root.
RECURSIVE meld(_, _, _)
meld(M, a, b) ==
  IF a = Nil THEN [M |-> M, n |-> b]
  ELSE IF b = Nil THEN [M |-> M, n |-> a]
  ELSE LET w == IF M.item[a] < M.item[b] THEN b ELSE a
           lo == IF M.item[a] < M.item[b] THEN a ELSE b
           R == meld(M, M.r[w], lo)
       IN [M |-> [R.M EXCEPT !.l[w] = R.n, !.r[w] = M.l[w]], n |-> w]

\* The same with the inner meld taking the other tree first, so that on
\* equal items the other tree's root stays above W's old right child.
RECURSIVE meldL(_, _, _)
meldL(M, a, b) ==
  IF a = Nil THEN [M |-> M, n |-> b]
  ELSE IF b = Nil THEN [M |-> M, n |-> a]
  ELSE LET w == IF M.item[a] < M.item[b] THEN b ELSE a
           lo == IF M.item[a] < M.item[b] THEN a ELSE b
           R == meldL(M, lo, M.r[w])
       IN [M |-> [R.M EXCEPT !.l[w] = R.n, !.r[w] = M.l[w]], n |-> w]

\* When merge returns, the tree in the destination is the tree T: the same
\* box at the root and the same boxes in every l and r field.
SameTree(T) ==
  /\ node'[mg.h] = T.n
  /\ l' = T.M.l
  /\ r' = T.M.r
  /\ \A n \in mg.na \cup mg.nb : item'[n] = T.M.item[n]

\* C18 as stated: the tree merge builds is meld(A, B), with left child
\* meld(W's old right child, L).
C18_Original ==
  [][MergeReturned => SameTree(meld(mg.m0, mg.a0, mg.b0))]_vars

\* C18 amended: the tree merge builds is, box for box, the recursive meld
\* whose inner call is meld(L, W's old right child), the first argument
\* winning ties at every level.
C18_MeldRefinement ==
  [][MergeReturned => SameTree(meldL(mg.m0, mg.a0, mg.b0))]_vars

\* merge has taken its turns and is about to return, on two trees for which
\* the two recursive definitions put different boxes in some field.
C18_Witness ==
  /\ mg.on
  /\ mg.iters >= 2
  /\ (Get(Mem, mg.a) = Nil \/ mg.b = Nil)
  /\ meld(mg.m0, mg.a0, mg.b0).M.l # meldL(mg.m0, mg.a0, mg.b0).M.l

\* Every box that repeated calls of Nodes::next on holder k yield has both
\* fields absent when it is yielded.
RECURSIVE YieldsClean(_, _)
YieldsClean(M, k) ==
  LET S == Nodes_next(M, k)
  IN \/ S.n = Nil
     \/ /\ S.M.l[S.n] = Nil
        /\ S.M.r[S.n] = Nil
        /\ YieldsClean(S.M, k)

\* C19: no call of push_node made by push, push_pop, replace or clone_from
\* has found a child in the box it was given; the box pop_node returns and
\* the boxes the walker yields from the tree of a heap have both fields
\* absent.
C19_NoFault ==
  /\ ~fault
  /\ \A h \in Heaps :
       LET P == pop_node(Mem, h)
           M1 == [Mem EXCEPT !.node["tmp"] = node[h], !.node[h] = Nil]
       IN /\ P.n # Nil => P.M.l[P.n] = Nil /\ P.M.r[P.n] = Nil
          /\ YieldsClean(M1, "tmp")
          /\ \A x \in Vals : ~replace(Mem, h, x).M.fault
          /\ \A x \in Vals : ~push_pop(Mem, h, x).M.fault

\* replace has just taken the root of a heap of three boxes out with
\* pop_node and put the box back with push_node.
C19_Witness ==
  /\ last.op = "replace"
  /\ last.plen[last.h] = 3
  /\ last.arg = << 1 >>
  /\ last.ret = Some(2)
  /\ Cardinality(NodesOf(Mem, last.h)) = 3
  /\ ~fault
====
